---- MODULE Spec2Model ----
(***************************************************************************)
(* finance-tracker: the Notion connector (paginated fetch, field           *)
(* extractors, category resolver, record normaliser) as a state machine.   *)
(***************************************************************************)
EXTENDS Integers, Sequences, FiniteSets, TLC

VARIABLES
    db,              \* the remote workspace: database id -> its records, in server order
    DATABASE_ID,     \* notion_api.DATABASE_ID, read from the environment at import
    call,            \* the entry point being executed ("none" when idle)
    pc,              \* position inside the running call
    num_pages,       \* get_pages' argument (NONE = fetch everything)
    payload,         \* get_pages' local: the body of the next request
    data,            \* get_pages' local: the last decoded response
    database_pages,  \* get_pages' local: the accumulated records
    requests,        \* the request bodies sent to the server during this call
    served,          \* the result arrays the server returned during this call
    database_id,     \* the source identifier the caller passed (NONE: none passed)
    failure,         \* the failed request: its position among the requests (0 = none
                     \* failed) and the exception it ended in
    outcome,         \* what the call gave its caller: a return value or an exception
    prev,            \* the previous completed call and its outcome
    cached_df,       \* gradio-app's global cached_df (NONE, or the cached table)
    fetches,         \* calls of get_finance_tracker_df made by the running request
    fn,              \* the pure function applied to `input` ("none": not yet)
    input,           \* the arguments a pure function is applied to
    result           \* what the applied function computed

vars == <<db, DATABASE_ID, call, pc, num_pages, payload, data, database_pages,
          requests, served, database_id, failure, outcome, prev, cached_df,
          fetches, fn, input, result>>

\* the state of a function application, left alone by the connector
fnVars == <<fn, input, result>>

(* ------------------------------ bounds -------------------------------- *)
\* the largest result array the modelled server puts in one response
MaxChunk == 2
\* the largest explicit num_pages argument tried
MaxNumPages == 2

(* -------------------------- Python values ----------------------------- *)
\* Python's None and a present value, as a sequence of length 0 or 1
NONE == <<>>
Some(x) == <<x>>

Min(a, b) == IF a <= b THEN a ELSE b

RECURSIVE Flatten(_)
Flatten(ss) == IF ss = <<>> THEN <<>> ELSE Head(ss) \o Flatten(Tail(ss))

\* how a call ends for its caller
Ok(v) == [kind |-> "return", exc |-> "", value |-> v]
Raise(e) == [kind |-> "raise", exc |-> e, value |-> NONE]
Pending == [kind |-> "pending", exc |-> "", value |-> NONE]
Raised(r) == r.kind = "raise"

(* ------------------------ the remote workspace ------------------------ *)
\* the three configured sources
SUB_CATEGORIES_DATABASE_ID == "SUB"
MAIN_CATEGORIES_DATABASE_ID == "MAIN"
FINANCE_TRACKER_DATABASE_ID == "FIN"
DbIds == {SUB_CATEGORIES_DATABASE_ID, MAIN_CATEGORIES_DATABASE_ID,
          FINANCE_TRACKER_DATABASE_ID}

\* property shapes of a raw record (absent column, null value, present value)
AbsentTitle == [shape |-> "absent", content |-> ""]
EmptyTitle == [shape |-> "empty", content |-> ""]
NoTextTitle == [shape |-> "notext", content |-> ""]
Title(s) == [shape |-> "ok", content |-> s]
AbsentDate == [shape |-> "absent", start |-> ""]
NullDate == [shape |-> "null", start |-> ""]
DateProp(s) == [shape |-> "ok", start |-> s]
AbsentNumber == [shape |-> "absent", number |-> 0]
NullNumber == [shape |-> "null", number |-> 0]
Number(n) == [shape |-> "ok", number |-> n]
AbsentSelect == [shape |-> "absent", name |-> ""]
NullSelect == [shape |-> "null", name |-> ""]
Select(s) == [shape |-> "ok", name |-> s]
AbsentRelation == [shape |-> "absent", ids |-> <<>>]
Relation(ids) == [shape |-> "ok", ids |-> ids]

\* a raw record: its id (NONE when the record has none) and its property bag,
\* keyed by column name
Page(id, name, date, amount, account, cash, bus, subrel, mainrel) ==
    [id |-> id,
     properties |->
        ("Name" :> name) @@ ("Date" :> date) @@ ("Amount" :> amount) @@
        ("Account" :> account) @@ ("Cash Flow Type" :> cash) @@
        ("Business Related?" :> bus) @@ ("Sub Category" :> subrel) @@
        ("Main Finance Categories" :> mainrel)]

CategoryPage(id, name, mainrel) ==
    Page(Some(id), name, AbsentDate, AbsentNumber, AbsentSelect, AbsentSelect,
         AbsentSelect, AbsentRelation, mainrel)

MainPages ==
    << CategoryPage("m1", Title("Living"), AbsentRelation),
       CategoryPage("m2", EmptyTitle, AbsentRelation),
       CategoryPage("m3", Title("Work"), AbsentRelation) >>

SubPages ==
    << CategoryPage("s1", Title("Rent"), Relation(<<"m1", "m3">>)),
       CategoryPage("s2", Title("Misc"), Relation(<<>>)),
       CategoryPage("s3", AbsentTitle, Relation(<<"m1">>)),
       CategoryPage("s4", Title("Tools"), Relation(<<"m2">>)) >>

\* sub-category names are not unique in the second workspace
SubPagesDup ==
    << CategoryPage("s1", Title("Misc"), Relation(<<>>)),
       CategoryPage("s2", Title("Misc"), Relation(<<"m3">>)),
       CategoryPage("s3", Title("Rent"), AbsentRelation) >>

FinPages ==
    << Page(Some("t1"), Title("salary"), DateProp("2024-05-01"), Number(1000),
            Select("Bank"), Select("Revenue"), Select("Business-Related"),
            Relation(<<"s1">>), AbsentRelation),
       Page(Some("t2"), AbsentTitle, DateProp("2024-05-15"), Number(300),
            Select("Cash"), Select("Expense"), NullSelect,
            Relation(<<"s2">>), AbsentRelation),
       Page(Some("t3"), Title("lunch"), DateProp("15/05/2024"), Number(12),
            AbsentSelect, Select("Expense"), AbsentSelect,
            Relation(<<"s2">>), AbsentRelation),
       Page(Some("t4"), Title("misc"), DateProp("2024-05-20"), NullNumber,
            NullSelect, AbsentSelect, Select("Not Business-Related"),
            Relation(<<"s2", "s1">>), AbsentRelation) >>

FinPagesShort ==
    << Page(Some("t5"), Title("tools"), DateProp("2024-06-02"), AbsentNumber,
            Select("Bank"), Select("Expense"), Select("Business-Related"),
            Relation(<<"s4">>), AbsentRelation),
       Page(Some("t6"), Title("gift"), NullDate, Number(50),
            Select("Cash"), NullSelect, Select("Not Business-Related"),
            Relation(<<"s9">>), AbsentRelation),
       Page(Some("t7"), Title("rent"), DateProp("2024-06-03"), Number(700),
            Select("Bank"), Select("Expense"), Select("Not Business-Related"),
            AbsentRelation, AbsentRelation) >>

Workspaces ==
    { [d \in DbIds |-> CASE d = "SUB" -> SubPages
                         [] d = "MAIN" -> MainPages
                         [] OTHER -> FinPages],
      [d \in DbIds |-> CASE d = "SUB" -> SubPagesDup
                         [] d = "MAIN" -> MainPages
                         [] OTHER -> FinPagesShort] }

(* --------------------------- the server ------------------------------- *)
\* the offset a request's cursor stands for (no cursor: the start)
CursorOffset(p) == IF p.start_cursor = NONE THEN 0 ELSE p.start_cursor[1]

\* the response to request body p on records recs, the server returning k records
Response(recs, p, k) ==
    LET from == CursorOffset(p)
        more == from + k < Len(recs)
    IN  [results |-> SubSeq(recs, from + 1, from + k),
         has_more |-> more,
         next_cursor |-> IF more THEN Some(from + k) ELSE NONE]

\* the sizes the server may give the response to p: at most page_size, at most
\* what is left, and at least one record while records are left
ChunkSizes(recs, p) ==
    LET left == Len(recs) - CursorOffset(p)
        cap == Min(Min(p.page_size, MaxChunk), left)
    IN  IF left = 0 THEN {0} ELSE 1..cap

\* the body of an error response (HTTP 401): it has no "results" key
ErrorBody == [results |-> <<>>, has_more |-> FALSE, next_cursor |-> NONE]

(* ------------------------- field extractors --------------------------- *)
\* props.get(column_name, {}): the property at the column, absent when the bag
\* has no such key
PropGet(props, column_name) ==
    IF column_name \in DOMAIN props THEN props[column_name]
    ELSE [shape |-> "absent"]

\* a select extractor without the "is not None" test on the select value
extract_select_type_info_Unguarded(props, column_name) ==
    LET p == PropGet(props, column_name) IN
    IF p.shape \in {"ok", "null"} /\ "name" \in DOMAIN p THEN Some(p.name)
    ELSE NONE

\* props.get(column_name, {}).get("select", None), then .get("name", None) of
\* a select value that is not None; a property of another type has no
\* "select" key
extract_select_type_info(props, column_name) ==
    LET p == PropGet(props, column_name) IN
    IF p.shape = "ok" /\ "name" \in DOMAIN p THEN Some(p.name) ELSE NONE

\* props.get(column_name, {}).get("number", None)
extract_number_type_info(props, column_name) ==
    LET p == PropGet(props, column_name) IN
    IF p.shape = "ok" /\ "number" \in DOMAIN p THEN Some(p.number) ELSE NONE

\* a relation extractor that gives only the first entry of the list
extract_relation_type_info_First(props, column_name) ==
    LET p == PropGet(props, column_name) IN
    IF p.shape = "ok" /\ "ids" \in DOMAIN p
    THEN Some(SubSeq(p.ids, 1, Min(1, Len(p.ids)))) ELSE NONE

\* props.get(column_name, {}).get("relation", None): the list itself, or None
extract_relation_type_info(props, column_name) ==
    LET p == PropGet(props, column_name) IN
    IF p.shape = "ok" /\ "ids" \in DOMAIN p THEN Some(p.ids) ELSE NONE

\* a relation value is truthy when it is a non-empty list
Truthy(rel) == rel # NONE /\ rel[1] # <<>>

(* ------------------------------ dicts --------------------------------- *)
EmptyDict == [k \in {} |-> NONE]
DictSet(d, k, v) == [x \in DOMAIN d \cup {k} |-> IF x = k THEN v ELSE d[x]]
\* d.get(key, None), the key itself possibly None; the value unwrapped
DictGet(d, key) ==
    IF key # NONE /\ key[1] \in DOMAIN d THEN d[key[1]] ELSE NONE

(* -------------------------- category resolver ------------------------- *)
\* props["Name"]["title"][0]["text"]["content"]: the exception it raises, or ""
TitleError(t) ==
    CASE t.shape = "absent" -> "KeyError"
      [] t.shape = "empty" -> "IndexError"
      [] t.shape = "notext" -> "KeyError"
      [] OTHER -> ""

\* the chain of .get calls of get_page_name_mapping on one record: the name,
\* None, or IndexError on an empty title list (the [0] is not guarded)
PageNameOf(page) ==
    LET t == page.properties["Name"] IN
    CASE t.shape = "empty" -> Raise("IndexError")
      [] t.shape = "ok" -> Ok(Some(t.content))
      [] OTHER -> Ok(NONE)

\* the loop of get_page_name_mapping over the fetched records
RECURSIVE page_name_mapping(_, _)
page_name_mapping(database_pages_, acc) ==
    IF database_pages_ = <<>> THEN Ok(acc)
    ELSE LET page == Head(database_pages_)
             page_id == page.id
             nm == PageNameOf(page)
         IN  IF Raised(nm) THEN nm
             ELSE IF page_id # NONE /\ page_id[1] # ""
                     /\ nm.value # NONE /\ nm.value[1] # ""
                  THEN page_name_mapping(Tail(database_pages_),
                           DictSet(acc, page_id[1], Some(nm.value[1])))
                  ELSE page_name_mapping(Tail(database_pages_), acc)

\* the first related id resolved through an id -> name map, None when the
\* relation is absent or empty
FirstRelatedName(info, name_mapping) ==
    IF Truthy(info) THEN DictGet(name_mapping, Some(info[1][1])) ELSE NONE

\* one iteration of the loop of get_sub_to_main_categories_mapping; any
\* exception of the body is caught and the record left out
SubToMainStep(acc, page, maincategories_page_name_mapping) ==
    LET props == page.properties
        t == props["Name"]
        main_category_info ==
            extract_relation_type_info(props, "Main Finance Categories")
        main_category_name ==
            FirstRelatedName(main_category_info, maincategories_page_name_mapping)
    IN  IF TitleError(t) # "" THEN acc
        ELSE DictSet(acc, t.content, main_category_name)

RECURSIVE sub_to_main_loop(_, _, _)
sub_to_main_loop(pages, mainmap, acc) ==
    IF pages = <<>> THEN acc
    ELSE sub_to_main_loop(Tail(pages), mainmap,
                          SubToMainStep(acc, Head(pages), mainmap))

(* -------------------------- record normaliser ------------------------- *)
\* datetime.fromisoformat on the date strings of the modelled workspaces
IsoDates ==
    ("2024-05-01" :> [year |-> 2024, month |-> 5, day |-> 1]) @@
    ("2024-05-15" :> [year |-> 2024, month |-> 5, day |-> 15]) @@
    ("2024-05-20" :> [year |-> 2024, month |-> 5, day |-> 20]) @@
    ("2024-06-02" :> [year |-> 2024, month |-> 6, day |-> 2]) @@
    ("2024-06-03" :> [year |-> 2024, month |-> 6, day |-> 3])

fromisoformat(s) ==
    IF s \in DOMAIN IsoDates THEN Ok(IsoDates[s]) ELSE Raise("ValueError")

\* props["Date"]["date"]["start"] parsed: the date or the exception
DateOf(props) ==
    LET d == props["Date"] IN
    CASE d.shape = "absent" -> Raise("KeyError")
      [] d.shape = "null" -> Raise("TypeError")
      [] OTHER -> fromisoformat(d.start)

\* the body of the try block of get_finance_tracker_df on one record: the row
\* it builds, or the exception that makes the loop leave the record out
PageDict(page, subcategories_page_name_mapping, sub_to_main) ==
    LET props == page.properties
        t == props["Name"]
        date == DateOf(props)
        sub_category_info == extract_relation_type_info(props, "Sub Category")
        sub_category_name ==
            FirstRelatedName(sub_category_info, subcategories_page_name_mapping)
    IN  IF TitleError(t) # "" THEN Raise(TitleError(t))
        ELSE IF Raised(date) THEN date
        ELSE Ok([name |-> t.content,
                 date |-> date.value,
                 amount |-> extract_number_type_info(props, "Amount"),
                 account |-> extract_select_type_info(props, "Account"),
                 cash_flow_type |->
                     extract_select_type_info(props, "Cash Flow Type"),
                 business_related |->
                     extract_select_type_info(props, "Business Related?"),
                 sub_category |-> sub_category_name,
                 main_category |-> DictGet(sub_to_main, sub_category_name)])

\* the loop of get_finance_tracker_df: the rows of the records whose body
\* raised nothing, in record order
RECURSIVE page_dicts(_, _, _)
page_dicts(pages, submap, sub_to_main) ==
    IF pages = <<>> THEN <<>>
    ELSE LET r == PageDict(Head(pages), submap, sub_to_main)
             rest == page_dicts(Tail(pages), submap, sub_to_main)
         IN  IF Raised(r) THEN rest ELSE <<r.value>> \o rest

(* --------------------------- entry points ----------------------------- *)
\* Python's binding of a call's positional arguments to a def's parameters
BindsTo(params, args) == Len(args) <= Len(params)

\* def get_database(): it declares no parameter
get_database_params == <<>>

\* a call get_database(*args); fetched is what get_pages() gives when it is run
get_database(args, fetched) ==
    IF ~BindsTo(get_database_params, args) THEN Raise("TypeError") ELSE fetched

\* what a complete run of get_pages() ends in: every record of the database
\* named by DATABASE_ID, or the exception of a failed request
FetchOutcomes(recs) == {Ok(recs), Raise("ConnectionError"), Raise("KeyError")}

get_page_name_mapping(id, fetched) ==
    LET database_pages_ == get_database(<<id>>, fetched) IN
    IF Raised(database_pages_) THEN database_pages_
    ELSE page_name_mapping(database_pages_.value, EmptyDict)

\* f[1] answers the fetch of the sub-categories, f[2] of the main categories
get_sub_to_main_categories_mapping(f) ==
    LET pages == get_database(<<SUB_CATEGORIES_DATABASE_ID>>, f[1])
        maincategories_page_name_mapping ==
            get_page_name_mapping(MAIN_CATEGORIES_DATABASE_ID, f[2])
    IN  IF Raised(pages) THEN pages
        ELSE IF Raised(maincategories_page_name_mapping)
             THEN maincategories_page_name_mapping
        ELSE Ok(sub_to_main_loop(pages.value,
                                 maincategories_page_name_mapping.value,
                                 EmptyDict))

get_finance_tracker_pages(fetched) ==
    get_database(<<FINANCE_TRACKER_DATABASE_ID>>, fetched)

\* f[1..4] answer the four fetches in the order the function issues them
get_finance_tracker_df(f) ==
    LET subcategories_page_name_mapping ==
            get_page_name_mapping(SUB_CATEGORIES_DATABASE_ID, f[1])
        sub_to_main == get_sub_to_main_categories_mapping(<<f[2], f[3]>>)
        pages == get_finance_tracker_pages(f[4])
    IN  IF Raised(subcategories_page_name_mapping)
        THEN subcategories_page_name_mapping
        ELSE IF Raised(sub_to_main) THEN sub_to_main
        ELSE IF Raised(pages) THEN pages
        ELSE Ok(page_dicts(pages.value, subcategories_page_name_mapping.value,
                           sub_to_main.value))

(* ----------------------------- get_pages ------------------------------ *)
PAGE_SIZE_ALL == 100

get_all == num_pages = NONE
page_size == IF get_all THEN PAGE_SIZE_ALL ELSE num_pages[1]

NoPayload == [page_size |-> 0, start_cursor |-> NONE]
NoFailure == [at |-> 0, exc |-> ""]

Init ==
    /\ db \in Workspaces
    /\ DATABASE_ID \in DbIds
    /\ call = "none"
    /\ pc = "idle"
    /\ num_pages = NONE
    /\ payload = NoPayload
    /\ data = ErrorBody
    /\ database_pages = <<>>
    /\ requests = <<>>
    /\ served = <<>>
    /\ database_id = NONE
    /\ failure = NoFailure
    /\ outcome = Pending
    /\ prev = [call |-> "none", outcome |-> Pending]
    /\ cached_df = NONE
    /\ fetches = 0
    /\ fn = "none"
    /\ input = NONE
    /\ result = NONE

\* get_pages(num_pages) is entered: headers, url, page size and first payload
get_pages_enter(name, n) ==
    /\ pc = "idle"
    /\ call' = name
    /\ num_pages' = n
    /\ payload' = [page_size |-> IF n = NONE THEN PAGE_SIZE_ALL ELSE n[1],
                   start_cursor |-> NONE]
    /\ pc' = "post_first"
    /\ UNCHANGED <<db, DATABASE_ID, data, database_pages, requests, served,
                   database_id, failure, outcome, prev>>
    /\ UNCHANGED <<cached_df, fetches, fn, input, result>>

get_pages_call ==
    \E n \in {NONE} \cup {Some(i) : i \in 1..MaxNumPages} :
        get_pages_enter("get_pages", n)

\* get_database() called with no argument, as main.py does: get_pages()
get_database_call ==
    /\ BindsTo(get_database_params, <<>>)
    /\ get_pages_enter("get_database", NONE)

\* a slip: every response's results replace the list instead of extending it
Accumulate_Overwrite(first, pages, results) == results

\* the list after a response's results arrive: the first response's list is
\* taken as it is, a later one extends the list
Accumulate(first, pages, results) ==
    IF first THEN results ELSE pages \o results

\* requests.post answers with a page of results
post_ok ==
    /\ pc \in {"post_first", "post_next"}
    /\ \E k \in ChunkSizes(db[DATABASE_ID], payload) :
          LET resp == Response(db[DATABASE_ID], payload, k) IN
          /\ data' = resp
          /\ database_pages' = Accumulate(pc = "post_first", database_pages,
                                          resp.results)
          /\ served' = Append(served, resp.results)
    /\ requests' = Append(requests, payload)
    /\ pc' = "loop"
    /\ UNCHANGED <<db, DATABASE_ID, call, num_pages, payload, database_id,
                   failure, outcome, prev>>
    /\ UNCHANGED <<cached_df, fetches, fn, input, result>>

\* the exception a failed request ends in: requests.post raises on a transport
\* failure; an authentication failure is answered with an error body, and
\* reading data["results"] from it raises KeyError
FailureException(kind) ==
    IF kind = "transport" THEN "ConnectionError" ELSE "KeyError"

\* a slip: the exception is caught and the request made again
OnFailure_Retry(e, where) == [pc |-> where, outcome |-> Pending]

\* what get_pages does when the request made at position `where` ends in
\* exception e: nothing catches it, so the call ends with e
OnFailure(e, where) == [pc |-> "raised", outcome |-> Raise(e)]

post_fail ==
    /\ pc \in {"post_first", "post_next"}
    /\ \E kind \in {"transport", "auth"} :
          LET e == FailureException(kind)
              h == OnFailure(e, pc)
          IN  /\ pc' = h.pc
              /\ outcome' = h.outcome
              /\ data' = IF kind = "auth" THEN ErrorBody ELSE data
              /\ failure' = IF failure.at = 0
                            THEN [at |-> Len(requests) + 1, exc |-> e]
                            ELSE failure
    /\ requests' = Append(requests, payload)
    /\ UNCHANGED <<db, DATABASE_ID, call, num_pages, payload, database_pages,
                   served, database_id, prev>>
    /\ UNCHANGED <<cached_df, fetches, fn, input, result>>

\* a slip: the next request carries no cursor, so the server starts over
NextPayload_NoCursor(d) == [page_size |-> page_size, start_cursor |-> NONE]

\* the while test holds: the next request carries the response's cursor
NextPayload(d) == [page_size |-> page_size, start_cursor |-> d.next_cursor]

while_more ==
    /\ pc = "loop"
    /\ data.has_more /\ get_all
    /\ payload' = NextPayload(data)
    /\ pc' = "post_next"
    /\ UNCHANGED <<db, DATABASE_ID, call, num_pages, data, database_pages,
                   requests, served, database_id, failure, outcome, prev>>
    /\ UNCHANGED <<cached_df, fetches, fn, input, result>>

\* the while test fails: return database_pages
get_pages_return ==
    /\ pc = "loop"
    /\ ~(data.has_more /\ get_all)
    /\ outcome' = Ok(database_pages)
    /\ pc' = "returned"
    /\ UNCHANGED <<db, DATABASE_ID, call, num_pages, payload, data,
                   database_pages, requests, served, database_id, failure, prev>>
    /\ UNCHANGED <<cached_df, fetches, fn, input, result>>

(* ------------------- the callers of get_database ---------------------- *)
\* a call of entry point `name` with source identifier `id` that ends with r;
\* when r is the exception of a failed request, that request is recorded
EndsWith(name, id, r) ==
    /\ pc = "idle"
    /\ call' = name
    /\ database_id' = id
    /\ outcome' = r
    /\ pc' = IF Raised(r) THEN "raised" ELSE "returned"
    /\ failure' = IF Raised(r) /\ r.exc \in {"ConnectionError", "KeyError"}
                  THEN [at |-> 1, exc |-> r.exc] ELSE NoFailure
    /\ UNCHANGED <<db, DATABASE_ID, num_pages, payload, data, database_pages,
                   requests, served, prev>>
    /\ UNCHANGED <<cached_df, fetches, fn, input, result>>

get_page_name_mapping_call ==
    \E id \in DbIds, f \in FetchOutcomes(db[DATABASE_ID]) :
        EndsWith("get_page_name_mapping", Some(id), get_page_name_mapping(id, f))

get_sub_to_main_categories_mapping_call ==
    \E f \in [1..2 -> FetchOutcomes(db[DATABASE_ID])] :
        EndsWith("get_sub_to_main_categories_mapping", NONE,
                 get_sub_to_main_categories_mapping(f))

get_finance_tracker_pages_call ==
    \E f \in FetchOutcomes(db[DATABASE_ID]) :
        EndsWith("get_finance_tracker_pages", NONE, get_finance_tracker_pages(f))

get_finance_tracker_df_call ==
    \E f \in [1..4 -> FetchOutcomes(db[DATABASE_ID])] :
        EndsWith("get_finance_tracker_df", NONE, get_finance_tracker_df(f))

\* the caller has its answer; the next call starts from fresh locals
finish ==
    /\ pc \in {"returned", "raised"}
    /\ prev' = [call |-> call, outcome |-> outcome]
    /\ call' = "none"
    /\ pc' = "idle"
    /\ num_pages' = NONE
    /\ payload' = NoPayload
    /\ data' = ErrorBody
    /\ database_pages' = <<>>
    /\ requests' = <<>>
    /\ served' = <<>>
    /\ database_id' = NONE
    /\ failure' = NoFailure
    /\ outcome' = Pending
    /\ UNCHANGED <<db, DATABASE_ID>>
    /\ fetches' = 0
    /\ UNCHANGED <<cached_df, fn, input, result>>

(* ======================= properties of the connector ================== *)
Done(name) == call = name /\ pc \in {"returned", "raised"}
Returned(r) == r.kind = "return"
Range(f) == {f[i] : i \in DOMAIN f}

\* the vocabulary of the specification, on raw records
HasName(page) == page.properties["Name"].shape = "ok"
HasDate(page) ==
    /\ page.properties["Date"].shape = "ok"
    /\ page.properties["Date"].start \in DOMAIN IsoDates
ValidRecord(page) == HasName(page) /\ HasDate(page)
NameOf(page) == page.properties["Name"].content
NumberOrNull(p) == IF p.shape = "ok" THEN Some(p.number) ELSE NONE
SelectOrNull(p) == IF p.shape = "ok" THEN Some(p.name) ELSE NONE
FirstId(page, column) ==
    LET r == page.properties[column] IN
    IF r.shape = "ok" /\ r.ids # <<>> THEN Some(r.ids[1]) ELSE NONE
EmptyRelation(page, column) ==
    LET r == page.properties[column] IN r.shape = "ok" /\ r.ids = <<>>

Transactions == db[FINANCE_TRACKER_DATABASE_ID]
SubCategories == db[SUB_CATEGORIES_DATABASE_ID]
MainCategories == db[MAIN_CATEGORIES_DATABASE_ID]
ValidTransactions == SelectSeq(Transactions, ValidRecord)
MainCategoryNames == {NameOf(m) : m \in {x \in Range(MainCategories) : HasName(x)}}
\* the name of the main category with id i, null when no named record has it
MainNameOfId(i) ==
    LET hits == {m \in Range(MainCategories) : HasName(m) /\ m.id = i}
    IN  IF i = NONE \/ hits = {} THEN NONE
        ELSE Some(NameOf(CHOOSE m \in hits : TRUE))

\* C1: every transaction record whose Name and Date are present and parseable
\* yields exactly one row of the table get_finance_tracker_df returns, and the
\* row's amount, account and cash_flow_type are the record's, null when absent.
C1_OneRowPerValidRecord ==
    (Done("get_finance_tracker_df") /\ failure.at = 0) =>
        /\ Returned(outcome)
        /\ Len(outcome.value) = Len(ValidTransactions)
        /\ \A i \in 1..Len(ValidTransactions) :
              LET props == ValidTransactions[i].properties
                  row == outcome.value[i]
              IN  /\ row.amount = NumberOrNull(props["Amount"])
                  /\ row.account = SelectOrNull(props["Account"])
                  /\ row.cash_flow_type = SelectOrNull(props["Cash Flow Type"])

\* C2: a record without a Name or a parseable Date contributes no row, and the
\* table has as many rows as there are records minus the invalid ones.
C2_InvalidRecordsDropped ==
    (Done("get_finance_tracker_df") /\ failure.at = 0) =>
        /\ Returned(outcome)
        /\ Len(outcome.value) =
              Len(Transactions)
              - Cardinality({i \in 1..Len(Transactions) :
                                ~ValidRecord(Transactions[i])})
        /\ \A i \in 1..Len(outcome.value) :
              \E j \in 1..Len(Transactions) :
                  /\ ValidRecord(Transactions[j])
                  /\ NameOf(Transactions[j]) = outcome.value[i].name

\* C3: when some record of the batch cannot be processed,
\* get_finance_tracker_df still returns a table, and the valid records before
\* and after it give their rows in the order of the records.
C3_PerRecordIsolation ==
    (/\ Done("get_finance_tracker_df") /\ failure.at = 0
     /\ \E j \in 1..Len(Transactions) : ~ValidRecord(Transactions[j])) =>
        /\ Returned(outcome)
        /\ [i \in 1..Len(outcome.value) |-> outcome.value[i].name]
              = [i \in 1..Len(ValidTransactions) |-> NameOf(ValidTransactions[i])]

\* C4: a full fetch returns the concatenation of the result arrays of every
\* page the server returned during the call, in the order they were returned.
C4_FullFetchConcatenates ==
    (call \in {"get_pages", "get_database"} /\ pc = "returned" /\ get_all) =>
        outcome = Ok(Flatten(served))

C4_Witness ==
    /\ call = "get_pages" /\ pc = "returned" /\ get_all
    /\ Len(served) >= 3
    /\ \A i \in 1..Len(served) : served[i] # <<>>
    /\ Len(outcome.value) = 4

\* C5: a fetch issued with a source identifier completes and returns the
\* records of the source that identifier names.
C5_FetchReadsNamedSource ==
    /\ (Done("get_finance_tracker_pages") /\ failure.at = 0) =>
           outcome = Ok(Transactions)
    /\ (Done("get_page_name_mapping") /\ failure.at = 0) =>
           outcome = page_name_mapping(db[database_id[1]], EmptyDict)
    /\ (Done("get_sub_to_main_categories_mapping") /\ failure.at = 0) =>
           outcome.exc # "TypeError"

\* C6: when a page request of a fetch fails, the call ends in the exception of
\* that request: the request is not made again, no further page is requested
\* and no list is returned.
C6_FailurePropagates ==
    (call \in {"get_pages", "get_database"} /\ failure.at > 0) =>
        /\ pc = "raised"
        /\ outcome = Raise(failure.exc)
        /\ Len(requests) = failure.at

C6_Witness ==
    /\ call = "get_pages" /\ pc = "raised"
    /\ failure.at = 2
    /\ database_pages # <<>>
    /\ data.has_more

C8_MappingIdempotent ==
    (/\ prev.call = "get_sub_to_main_categories_mapping"
     /\ prev.outcome.exc \notin {"ConnectionError", "KeyError"}
     /\ Done("get_sub_to_main_categories_mapping") /\ failure.at = 0) =>
        /\ Returned(prev.outcome)
        /\ Returned(outcome)
        /\ outcome.value = prev.outcome.value

\* C9: the mapping get_sub_to_main_categories_mapping returns has, for every
\* sub-category record with a Name title, the entry name -> name of the main
\* category with the first related id (null when there is none), and no entry
\* for a record without a Name.
C9_SubToMainEntries ==
    (Done("get_sub_to_main_categories_mapping") /\ failure.at = 0) =>
        /\ Returned(outcome)
        /\ DOMAIN outcome.value =
              {NameOf(s) : s \in {x \in Range(SubCategories) : HasName(x)}}
        /\ \A s \in {x \in Range(SubCategories) : HasName(x)} :
              outcome.value[NameOf(s)] =
                  MainNameOfId(FirstId(s, "Main Finance Categories"))

\* C10: every transaction row whose first Sub Category id is that of a
\* sub-category with an empty main-category relation has main_category null
\* and that sub-category's name as sub_category.
C10_EmptyRelationGivesNullMain ==
    (Done("get_finance_tracker_df") /\ failure.at = 0) =>
        /\ Returned(outcome)
        /\ \A s \in {x \in Range(SubCategories) :
                        HasName(x) /\ EmptyRelation(x, "Main Finance Categories")} :
           \A i \in 1..Len(ValidTransactions) :
              FirstId(ValidTransactions[i], "Sub Category") = s.id =>
                  /\ i <= Len(outcome.value)
                  /\ outcome.value[i].main_category = NONE
                  /\ outcome.value[i].sub_category = Some(NameOf(s))

(* ------------------ the connector's helper functions ------------------ *)
\* the connector, at rest: no call is running
AtRest ==
    /\ db \in Workspaces
    /\ DATABASE_ID = FINANCE_TRACKER_DATABASE_ID
    /\ call = "none"
    /\ pc = "idle"
    /\ num_pages = NONE
    /\ payload = NoPayload
    /\ data = ErrorBody
    /\ database_pages = <<>>
    /\ requests = <<>>
    /\ served = <<>>
    /\ database_id = NONE
    /\ failure = NoFailure
    /\ outcome = Pending
    /\ prev = [call |-> "none", outcome |-> Pending]
    /\ cached_df = NONE
    /\ fetches = 0

\* records with and without an id, and with every kind of unresolvable name
\* but the empty title list
NamePages ==
    << CategoryPage("n1", Title("Food"), AbsentRelation),
       CategoryPage("n2", NoTextTitle, AbsentRelation),
       Page(NONE, Title("Ghost"), AbsentDate, AbsentNumber, AbsentSelect,
            AbsentSelect, AbsentSelect, AbsentRelation, AbsentRelation),
       CategoryPage("n4", AbsentTitle, AbsentRelation),
       CategoryPage("n5", Title("Travel"), AbsentRelation) >>

PageLists ==
    {MainPages, SubPages, SubPagesDup, FinPages, FinPagesShort, NamePages, <<>>}

PropertyBags == UNION {{pl[i].properties : i \in DOMAIN pl} : pl \in PageLists}

\* the columns of the workspace, and one that no record has
ColumnNames ==
    {"Name", "Date", "Amount", "Account", "Cash Flow Type", "Business Related?",
     "Sub Category", "Main Finance Categories", "Tags"}

UtilsInput(kind, props, column_name, pages) ==
    [kind |-> kind, props |-> props, column_name |-> column_name,
     pages |-> pages]

UtilsInputs ==
    {UtilsInput("props", b, c, <<>>) : b \in PropertyBags, c \in ColumnNames}
    \cup {UtilsInput("pages", EmptyDict, "", pl) : pl \in PageLists}

UtilsInit ==
    /\ AtRest
    /\ fn = "none"
    /\ input \in UtilsInputs
    /\ result = NONE

Applies(name, kind, r) ==
    /\ fn = "none"
    /\ input.kind = kind
    /\ fn' = name
    /\ result' = r
    /\ UNCHANGED <<db, DATABASE_ID, call, pc, num_pages, payload, data,
                   database_pages, requests, served, database_id, failure,
                   outcome, prev, cached_df, fetches, input>>

apply_extract_select_type_info ==
    Applies("extract_select_type_info", "props",
            Ok(extract_select_type_info(input.props, input.column_name)))

apply_extract_number_type_info ==
    Applies("extract_number_type_info", "props",
            Ok(extract_number_type_info(input.props, input.column_name)))

apply_extract_relation_type_info ==
    Applies("extract_relation_type_info", "props",
            Ok(extract_relation_type_info(input.props, input.column_name)))

\* the loop of get_page_name_mapping on a list of fetched records
apply_page_name_mapping ==
    Applies("page_name_mapping", "pages",
            page_name_mapping(input.pages, EmptyDict))

UtilsNext ==
    \/ apply_extract_select_type_info
    \/ apply_extract_number_type_info
    \/ apply_extract_relation_type_info
    \/ apply_page_name_mapping

UtilsSpec == UtilsInit /\ [][UtilsNext]_vars

\* the records of a list that have both an id and a resolvable name
Mappable(pages) == {i \in DOMAIN pages : pages[i].id # NONE /\ HasName(pages[i])}

\* the id -> name pairs of the mappable records
NamePairs(pages) ==
    [k \in {pages[i].id[1] : i \in Mappable(pages)} |->
        Some(NameOf(pages[CHOOSE i \in Mappable(pages) : pages[i].id[1] = k]))]

\* C11: get_page_name_mapping on a list of fetched records returns exactly the
\* id -> name pairs of the records that have both an id and a resolvable name;
\* a record without a resolvable name (no Name property, an empty title list,
\* no text content) is skipped without an exception and the others are mapped.
C11_UnnamedRecordsSkipped ==
    fn = "page_name_mapping" =>
        /\ Returned(result)
        /\ result.value = NamePairs(input.pages)

\* C12: extract_select_type_info(props, column) returns the name of the select
\* value at the column when there is one, and null when the column is absent
\* from props or its select value is null; it returns in every case.
C12_SelectNameOrNull ==
    fn = "extract_select_type_info" =>
        LET props == input.props
            column == input.column_name
        IN  /\ Returned(result)
            /\ (column \in DOMAIN props /\ props[column].shape = "ok"
                /\ "name" \in DOMAIN props[column])
                   => result.value = Some(props[column].name)
            /\ (column \notin DOMAIN props
                \/ props[column].shape \in {"absent", "null"})
                   => result.value = NONE

C12_Witness ==
    /\ fn = "extract_select_type_info"
    /\ input.column_name = "Cash Flow Type"
    /\ result = Ok(Some("Revenue"))

MaxRows == 3

\* a row of the table get_finance_tracker_df builds
Row(name, date, amount, cash, business, sub, main) ==
    [name |-> name, date |-> IsoDates[date], amount |-> amount,
     account |-> Some("Bank"), cash_flow_type |-> cash,
     business_related |-> business, sub_category |-> sub,
     main_category |-> main]

RowUniverse ==
    { Row("fee", "2024-05-01", Some(1000), Some("Revenue"),
          Some("Business-Related"), Some("Consulting"),
          Some("Career Related")),
      Row("tools", "2024-05-15", Some(300), Some("Expense"),
          Some("Business-Related"), Some("Tools"), Some("Career Related")),
      Row("reserve", "2024-05-20", Some(200), Some("Transfer to Savings"),
          Some("Business-Related"), NONE, NONE),
      Row("vat", "2024-05-15", Some(150), Some("Reserved for Taxes"),
          Some("Business-Related"), Some("Tax"), Some("Government")),
      Row("laptop", "2024-06-02", NONE, Some("Expense"),
          Some("Business-Related"), Some("Tools"), Some("Career Related")),
      Row("rent", "2024-06-02", Some(700), Some("Expense"),
          Some("Not Business-Related"), Some("Rent"), Some("Housing")),
      Row("food", "2024-06-03", Some(0), Some("Expense"),
          Some("Not Business-Related"), Some("Food"), Some("Housing")),
      Row("nest", "2024-06-03", Some(400), Some("Transfer to Savings"),
          Some("Not Business-Related"), Some("Savings"), Some("Housing")),
      Row("levy", "2024-05-01", Some(90), Some("Reserved for Taxes"),
          Some("Not Business-Related"), Some("Tax"), NONE),
      Row("wage", "2024-06-02", Some(500), Some("Revenue"),
          Some("Not Business-Related"), Some("Job"), Some("Housing")),
      Row("gift", "2024-05-20", Some(50), Some("Revenue"),
          NONE, Some("Misc"), NONE),
      Row("split", "2024-05-15", Some(60), Some("Expense"),
          Some("Shared"), Some("Rent"), Some("Housing")),
      Row("desk", "2024-05-20", Some(120), Some("Expense"),
          Some("Business-Related"), Some("Office"), Some("Career Related")),
      Row("cash", "2024-06-02", Some(40), Some("Expense"),
          Some("Not Business-Related"), Some("Misc"), NONE) }

\* the tables of one to MaxRows rows
Tables == UNION {[1..n -> RowUniverse] : n \in 1..MaxRows}

Digit(n) == <<"0", "1", "2", "3", "4", "5", "6", "7", "8", "9">>[n + 1]

\* dt.to_period("M").astype(str): "YYYY-MM"
month_year(date) ==
    Digit(date.year \div 1000) \o Digit((date.year \div 100) % 10)
    \o Digit((date.year \div 10) % 10) \o Digit(date.year % 10)
    \o "-" \o Digit(date.month \div 10) \o Digit(date.month % 10)

\* add_month_year_column on one row
WithMonthYear(r) ==
    [name |-> r.name, date |-> r.date, amount |-> r.amount,
     account |-> r.account, cash_flow_type |-> r.cash_flow_type,
     business_related |-> r.business_related,
     sub_category |-> r.sub_category, main_category |-> r.main_category,
     month_year |-> month_year(r.date)]

add_month_year_column(df) == [i \in DOMAIN df |-> WithMonthYear(df[i])]

\* a filter that also lets the untagged rows through
WhereEquals_OrNull(df, column, value) ==
    SelectSeq(df, LAMBDA r : r[column] = Some(value) \/ r[column] = NONE)

\* df[df[column] == value]: a null never equals the value
WhereEquals(df, column, value) ==
    SelectSeq(df, LAMBDA r : r[column] = Some(value))

\* df[df[column].isin(values)]
WhereIsIn(df, column, values) ==
    SelectSeq(df, LAMBDA r : r[column] # NONE /\ r[column][1] \in values)

\* an assignment that leaves the column as it was
Relabel_Not(df, value) == df

\* df.loc[:, "cash_flow_type"] = value
Relabel(df, value) ==
    [i \in DOMAIN df |-> [df[i] EXCEPT !.cash_flow_type = Some(value)]]

\* an aggregate that depends on the order of the rows: the amount of the last
\* row stands for the sum
SumAmount_Last(df) ==
    IF df = <<>> \/ df[Len(df)].amount = NONE THEN 0
    ELSE df[Len(df)].amount[1]

\* df["amount"].sum(): a null amount is skipped
RECURSIVE SumAmount(_)
SumAmount(df) ==
    IF df = <<>> THEN 0
    ELSE (IF Head(df).amount = NONE THEN 0 ELSE Head(df).amount[1])
         + SumAmount(Tail(df))

\* the sum of a column over a set of rows
RECURSIVE SumColumn(_, _)
SumColumn(S, column) ==
    IF S = {} THEN 0
    ELSE LET x == CHOOSE y \in S : TRUE
         IN  x[column] + SumColumn(S \ {x}, column)

\* add_monthly_total_annotations: one annotation per month, or per month and
\* value of the extra column, carrying the sum of the amounts; groupby leaves
\* out the rows whose key is null
add_monthly_total_annotations(df, extra_x_group) ==
    IF extra_x_group # NONE
    THEN LET col == extra_x_group[1]
             keyed == SelectSeq(df, LAMBDA r : r[col] # NONE)
         IN  [k \in {<<keyed[i].month_year, keyed[i][col][1]>> :
                        i \in DOMAIN keyed} |->
                 SumAmount(SelectSeq(keyed,
                     LAMBDA r : <<r.month_year, r[col][1]>> = k))]
    ELSE [m \in {df[i].month_year : i \in DOMAIN df} |->
             SumAmount(SelectSeq(df, LAMBDA r : r.month_year = m))]

\* revenue_vs_expense_totals.py: the business view; "Reserved for Taxes" is
\* shown as an "Expense"
graph_business_revenue_vs_expense_and_tax_totals(df_) ==
    LET df == add_month_year_column(
                  WhereEquals(df_, "business_related", "Business-Related"))
        revenue_df == WhereEquals(df, "cash_flow_type", "Revenue")
        expense_df == WhereEquals(df, "cash_flow_type", "Expense")
        taxes_df ==
            Relabel(WhereEquals(df, "cash_flow_type", "Reserved for Taxes"),
                    "Expense")
        combined_df == revenue_df \o expense_df \o taxes_df
        total_revenue == SumAmount(revenue_df)
        total_expenses == SumAmount(expense_df)
        total_taxes == SumAmount(taxes_df)
    IN  Ok([df |-> df,
            combined_df |-> combined_df,
            annotations |->
                add_monthly_total_annotations(combined_df,
                                              Some("cash_flow_type")),
            total_revenue |-> total_revenue,
            total_expenses |-> total_expenses,
            total_other |-> total_taxes,
            total_working_capital |->
                total_revenue - total_expenses - total_taxes])

\* revenue_vs_expense_totals.py: the personal view; "Transfer to Savings" is
\* shown as an "Expense"
graph_personal_revenue_vs_expense_and_saving_totals(df_) ==
    LET df == add_month_year_column(
                  WhereEquals(df_, "business_related", "Not Business-Related"))
        revenue_df == WhereEquals(df, "cash_flow_type", "Revenue")
        expense_df == WhereEquals(df, "cash_flow_type", "Expense")
        savings_df ==
            Relabel(WhereEquals(df, "cash_flow_type", "Transfer to Savings"),
                    "Expense")
        combined_df == revenue_df \o expense_df \o savings_df
        total_revenue == SumAmount(revenue_df)
        total_expenses == SumAmount(expense_df)
        total_savings == SumAmount(savings_df)
    IN  Ok([df |-> df,
            combined_df |-> combined_df,
            annotations |->
                add_monthly_total_annotations(combined_df,
                                              Some("cash_flow_type")),
            total_revenue |-> total_revenue,
            total_expenses |-> total_expenses,
            total_other |-> total_savings,
            total_working_capital |->
                total_revenue - total_expenses - total_savings])

\* x / y of two columns: the exact quotient, undefined (NaN or infinite) when
\* the divisor is 0; times 100
Percentage(x, y) == [num |-> x * 100, den |-> y, defined |-> y # 0]

\* a shaping whose monthly total is summed over all the filtered rows of the
\* month, those without a category included
filter_and_prepare_data_TotalOfAll(df_, business_related, cash_flow_types) ==
    LET df == WhereIsIn(
                  add_month_year_column(
                      WhereEquals(df_, "business_related", business_related)),
                  "cash_flow_type", cash_flow_types)
        keyed == SelectSeq(df, LAMBDA r : r.main_category # NONE
                                           /\ r.sub_category # NONE)
        Key(r) == <<r.month_year, r.main_category[1], r.sub_category[1]>>
        grouped_df ==
            {[month_year |-> k[1], main_category |-> k[2],
              sub_category |-> k[3],
              amount |-> SumAmount(SelectSeq(keyed, LAMBDA r : Key(r) = k))] :
                 k \in {Key(keyed[i]) : i \in DOMAIN keyed}}
    IN  {[month_year |-> g.month_year, main_category |-> g.main_category,
          sub_category |-> g.sub_category, amount |-> g.amount,
          main_category_sum |->
              SumColumn({h \in grouped_df :
                            h.month_year = g.month_year
                            /\ h.main_category = g.main_category}, "amount"),
          amount_monthly_total |->
              SumAmount(SelectSeq(df,
                  LAMBDA r : r.month_year = g.month_year))] :
            g \in grouped_df}

\* subcategory.py, _filter_and_prepare_data: the rows of one business-relation
\* tag and of the given cash flow types, summed by month, main category and
\* sub-category (groupby leaves out the rows with a null key), each group
\* with the month's sum of its main category and the month's total over the
\* groups. The table is kept as the set of its rows: every key occurs once.
filter_and_prepare_data(df_, business_related, cash_flow_types) ==
    LET df == WhereIsIn(
                  add_month_year_column(
                      WhereEquals(df_, "business_related", business_related)),
                  "cash_flow_type", cash_flow_types)
        keyed == SelectSeq(df, LAMBDA r : r.main_category # NONE
                                           /\ r.sub_category # NONE)
        Key(r) == <<r.month_year, r.main_category[1], r.sub_category[1]>>
        grouped_df ==
            {[month_year |-> k[1], main_category |-> k[2],
              sub_category |-> k[3],
              amount |-> SumAmount(SelectSeq(keyed, LAMBDA r : Key(r) = k))] :
                 k \in {Key(keyed[i]) : i \in DOMAIN keyed}}
        main_category_sum(m, c) ==
            SumColumn({g \in grouped_df : g.month_year = m
                                          /\ g.main_category = c}, "amount")
        monthly_total(m) ==
            SumColumn({g \in grouped_df : g.month_year = m}, "amount")
    IN  {[month_year |-> g.month_year, main_category |-> g.main_category,
          sub_category |-> g.sub_category, amount |-> g.amount,
          main_category_sum |-> main_category_sum(g.month_year,
                                                  g.main_category),
          amount_monthly_total |-> monthly_total(g.month_year)] :
            g \in grouped_df}

\* percentages taken of the main category's sum, not of the month's total
create_percent_stacked_bar_chart_OfMain(grouped_df) ==
    {[month_year |-> g.month_year, main_category |-> g.main_category,
      sub_category |-> g.sub_category, amount |-> g.amount,
      main_category_sum |-> g.main_category_sum,
      amount_monthly_total |-> g.amount_monthly_total,
      percentage |-> Percentage(g.amount, g.main_category_sum),
      main_category_percentage |->
          Percentage(g.main_category_sum, g.amount_monthly_total)] :
        g \in grouped_df}

\* subcategory.py, _create_percent_stacked_bar_chart, lines 156-164: the two
\* percentage columns
create_percent_stacked_bar_chart(grouped_df) ==
    {[month_year |-> g.month_year, main_category |-> g.main_category,
      sub_category |-> g.sub_category, amount |-> g.amount,
      main_category_sum |-> g.main_category_sum,
      amount_monthly_total |-> g.amount_monthly_total,
      percentage |-> Percentage(g.amount, g.amount_monthly_total),
      main_category_percentage |->
          Percentage(g.main_category_sum, g.amount_monthly_total)] :
        g \in grouped_df}

\* the annotations of _create_stacked_bar_chart: one per month of the grouped
\* table, carrying the month's sum
stacked_annotations(grouped_df) ==
    [m \in {g.month_year : g \in grouped_df} |->
        SumColumn({g \in grouped_df : g.month_year = m}, "amount")]

\* the six by-sub-category views: the tag and the cash flow types each passes
\* to _filter_and_prepare_data
SubcategoryViews ==
    { [name |-> "graph_business_expenses_and_taxes_by_subcategory",
       business_related |-> "Business-Related",
       cash_flow_types |-> {"Expense", "Reserved for Taxes"}],
      [name |-> "graph_business_expenses_by_subcategory",
       business_related |-> "Business-Related",
       cash_flow_types |-> {"Expense"}],
      [name |-> "graph_business_revenue_by_subcategory",
       business_related |-> "Business-Related",
       cash_flow_types |-> {"Revenue"}],
      [name |-> "graph_personal_expenses_and_savings_by_subcategory",
       business_related |-> "Not Business-Related",
       cash_flow_types |-> {"Expense", "Transfer to Savings"}],
      [name |-> "graph_personal_expenses_by_subcategory",
       business_related |-> "Not Business-Related",
       cash_flow_types |-> {"Expense"}],
      [name |-> "graph_personal_revenue_by_subcategory",
       business_related |-> "Not Business-Related",
       cash_flow_types |-> {"Revenue"}] }

\* one by-sub-category view on a table: the grouped table and its annotations
graph_by_subcategory(view, df_) ==
    LET grouped_df == filter_and_prepare_data(df_, view.business_related,
                                              view.cash_flow_types)
    IN  Ok([grouped_df |-> grouped_df,
            annotations |-> stacked_annotations(grouped_df)])

\* graphs/utils.py defines no preprocess_business_data: looking the attribute
\* up on the module raises before anything is computed
preprocess_business_data(df_) == Raise("AttributeError")

\* bus_expense_vs_revenue_totals.py; "Transfer to Savings" is shown as an
\* "Expense"
graph_business_related_expense_vs_revenue_totals(df_) ==
    LET pre == preprocess_business_data(df_) IN
    IF Raised(pre) THEN pre
    ELSE
    LET df == pre.value
        revenue_df == WhereEquals(df, "cash_flow_type", "Revenue")
        expense_df == WhereEquals(df, "cash_flow_type", "Expense")
        transfer_to_savings_df ==
            Relabel(WhereEquals(df, "cash_flow_type", "Transfer to Savings"),
                    "Expense")
        combined_df == revenue_df \o expense_df \o transfer_to_savings_df
        total_revenue == SumAmount(revenue_df)
        total_expenses == SumAmount(expense_df)
        total_transfer_to_savings == SumAmount(transfer_to_savings_df)
    IN  Ok([df |-> df,
            combined_df |-> combined_df,
            total_revenue |-> total_revenue,
            total_expenses |-> total_expenses,
            total_other |-> total_transfer_to_savings,
            total_profit |->
                total_revenue - total_expenses - total_transfer_to_savings])

\* expense_df.loc[:, "amount"] = -1 * expense_df["amount"]: a null stays null
Negated(df) ==
    [i \in DOMAIN df |->
        [df[i] EXCEPT !.amount =
            IF df[i].amount = NONE THEN NONE ELSE Some(0 - df[i].amount[1])]]

\* a date as a number that orders the dates
Ordinal(date) == date.year * 10000 + date.month * 100 + date.day

\* sort_values(by="date") of a set of dates
RECURSIVE SortedDates(_)
SortedDates(S) ==
    IF S = {} THEN <<>>
    ELSE LET d == CHOOSE x \in S : \A y \in S : Ordinal(x) <= Ordinal(y)
         IN  <<d>> \o SortedDates(S \ {d})

\* bus_expense_vs_revenue_waterfall.py: expenses and savings negated, the rows
\* summed by date, one relative delta per date in date order
graph_business_related_expense_vs_revenue_waterfall(df_) ==
    LET pre == preprocess_business_data(df_) IN
    IF Raised(pre) THEN pre
    ELSE
    LET df == pre.value
        revenue_df == WhereEquals(df, "cash_flow_type", "Revenue")
        expense_df == Negated(WhereEquals(df, "cash_flow_type", "Expense"))
        savings_df ==
            Negated(WhereEquals(df, "cash_flow_type", "Transfer to Savings"))
        combined_df == expense_df \o savings_df \o revenue_df
        dates == SortedDates({combined_df[i].date : i \in DOMAIN combined_df})
    IN  Ok([i \in DOMAIN dates |->
               LET group == SelectSeq(combined_df,
                                      LAMBDA r : r.date = dates[i])
               IN  [date |-> dates[i],
                    amount |-> SumAmount(group),
                    name |-> [k \in DOMAIN group |->
                                 <<group[k].name, group[k].amount>>]]])

\* the views of revenue_vs_expense_totals.py
RevenueVsExpenseViews ==
    {"graph_business_revenue_vs_expense_and_tax_totals",
     "graph_personal_revenue_vs_expense_and_saving_totals"}

\* the view of the given name on a table
ChartOf(name, df) ==
    CASE name = "graph_business_revenue_vs_expense_and_tax_totals" ->
            graph_business_revenue_vs_expense_and_tax_totals(df)
      [] name = "graph_personal_revenue_vs_expense_and_saving_totals" ->
            graph_personal_revenue_vs_expense_and_saving_totals(df)
      [] OTHER ->
            graph_by_subcategory(
                CHOOSE view \in SubcategoryViews : view.name = name, df)

(* ------------------ the table objects of a chart call ----------------- *)
\* The table objects alive during a chart call, in the order they come into
\* being: object 1 is the table the caller passed in. A step works on the
\* object `id` and gives back the objects and the object its result is.

\* a slip: the derived table is written over the table it is derived from
Fresh_InPlace(objs, id, table) ==
    [objs |-> [objs EXCEPT ![id] = table], id |-> id]

\* df.copy(), df[mask]: the table derived from object id is a new object
Fresh(objs, id, table) ==
    [objs |-> Append(objs, table), id |-> Len(objs) + 1]

\* df[column] = ..., df.loc[:, column] = ...: the columns of object id itself
\* are assigned
Assign(objs, id, table) ==
    [objs |-> [objs EXCEPT ![id] = table], id |-> id]

\* revenue_vs_expense_totals.py, either view: the objects at the end of a call
\* on df_, `other` being the tag the view shows as "Expense"
revenue_vs_expense_objects(df_, business_related, other) ==
    LET copy == Fresh(<<df_>>, 1, df_)
        own == Fresh(copy.objs, copy.id,
                     WhereEquals(copy.objs[copy.id], "business_related",
                                 business_related))
        df == Assign(own.objs, own.id, add_month_year_column(own.objs[own.id]))
        revenue_df == Fresh(df.objs, df.id,
                            WhereEquals(df.objs[df.id], "cash_flow_type",
                                        "Revenue"))
        expense_df == Fresh(revenue_df.objs, df.id,
                            WhereEquals(revenue_df.objs[df.id],
                                        "cash_flow_type", "Expense"))
        other_df == Fresh(expense_df.objs, df.id,
                          WhereEquals(expense_df.objs[df.id],
                                      "cash_flow_type", other))
    IN  Assign(other_df.objs, other_df.id,
               Relabel(other_df.objs[other_df.id], "Expense")).objs

\* subcategory.py, _filter_and_prepare_data lines 35-38: the objects when the
\* grouping starts; what follows works on the grouped table only
filter_and_prepare_objects(df_, business_related, cash_flow_types) ==
    LET copy == Fresh(<<df_>>, 1, df_)
        own == Fresh(copy.objs, copy.id,
                     WhereEquals(copy.objs[copy.id], "business_related",
                                 business_related))
        df == Assign(own.objs, own.id, add_month_year_column(own.objs[own.id]))
    IN  Fresh(df.objs, df.id,
              WhereIsIn(df.objs[df.id], "cash_flow_type", cash_flow_types)).objs

\* the objects at the end of the chart function of the given name on df_; a
\* bus_* function stops at its first statement
ObjectsOf(name, df_) ==
    CASE name = "graph_business_revenue_vs_expense_and_tax_totals" ->
            revenue_vs_expense_objects(df_, "Business-Related",
                                       "Reserved for Taxes")
      [] name = "graph_personal_revenue_vs_expense_and_saving_totals" ->
            revenue_vs_expense_objects(df_, "Not Business-Related",
                                       "Transfer to Savings")
      [] name \in {view.name : view \in SubcategoryViews} ->
            LET view == CHOOSE v \in SubcategoryViews : v.name = name
            IN  filter_and_prepare_objects(df_, view.business_related,
                                           view.cash_flow_types)
      [] OTHER -> <<df_>>

\* the caller's table as the chart function of the given name leaves it
ArgumentAfter(name, df_) == ObjectsOf(name, df_)[1]

(* ------------------- the chart functions on a table ------------------- *)
GraphInit ==
    /\ AtRest
    /\ db[FINANCE_TRACKER_DATABASE_ID] = FinPages
    /\ fn = "none"
    /\ input \in Tables
    /\ result = NONE

\* a call of the chart function of the given name on the caller's table, which
\* ends with r; the caller's table is afterwards what the function left of it
Charts(name, r) ==
    /\ fn' = name
    /\ result' = r
    /\ input' = ArgumentAfter(name, input)
    /\ UNCHANGED <<db, DATABASE_ID, call, pc, num_pages, payload, data,
                   database_pages, requests, served, database_id, failure,
                   outcome, prev, cached_df, fetches>>

graph_business_revenue_vs_expense_and_tax_totals_call ==
    Charts("graph_business_revenue_vs_expense_and_tax_totals",
           graph_business_revenue_vs_expense_and_tax_totals(input))

graph_personal_revenue_vs_expense_and_saving_totals_call ==
    Charts("graph_personal_revenue_vs_expense_and_saving_totals",
           graph_personal_revenue_vs_expense_and_saving_totals(input))

graph_by_subcategory_call ==
    \E view \in SubcategoryViews :
        Charts(view.name, graph_by_subcategory(view, input))

\* _create_percent_stacked_bar_chart on the grouped table of a view
create_percent_stacked_bar_chart_call ==
    /\ fn \in {view.name : view \in SubcategoryViews}
    /\ fn' = "create_percent_stacked_bar_chart"
    /\ result' = Ok(create_percent_stacked_bar_chart(result.value.grouped_df))
    /\ UNCHANGED <<db, DATABASE_ID, call, pc, num_pages, payload, data,
                   database_pages, requests, served, database_id, failure,
                   outcome, prev, cached_df, fetches, input>>

graph_business_related_expense_vs_revenue_totals_call ==
    Charts("graph_business_related_expense_vs_revenue_totals",
           graph_business_related_expense_vs_revenue_totals(input))

graph_business_related_expense_vs_revenue_waterfall_call ==
    Charts("graph_business_related_expense_vs_revenue_waterfall",
           graph_business_related_expense_vs_revenue_waterfall(input))

GraphNext ==
    \/ graph_business_revenue_vs_expense_and_tax_totals_call
    \/ graph_personal_revenue_vs_expense_and_saving_totals_call
    \/ graph_by_subcategory_call
    \/ create_percent_stacked_bar_chart_call
    \/ graph_business_related_expense_vs_revenue_totals_call
    \/ graph_business_related_expense_vs_revenue_waterfall_call

GraphSpec == GraphInit /\ [][GraphNext]_vars

(* ----------------------- claims on the charts ------------------------- *)
\* a row tagged as business or as personal
Tagged(r) ==
    r.business_related \in
        {Some("Business-Related"), Some("Not Business-Related")}

Scenario ==
    << Row("fee", "2024-05-01", Some(1000), Some("Revenue"),
           Some("Business-Related"), Some("Consulting"),
           Some("Career Related")),
       Row("tools", "2024-05-15", Some(300), Some("Expense"),
           Some("Business-Related"), Some("Tools"), Some("Career Related")),
       Row("reserve", "2024-05-20", Some(200), Some("Transfer to Savings"),
           Some("Business-Related"), NONE, NONE) >>

\* the monthly totals of a combined table by cash flow type
MonthlyTotals(combined_df) ==
    add_monthly_total_annotations(combined_df, Some("cash_flow_type"))

\* C15: on the three records of the scenario, the business expense-vs-revenue
\* monthly totals of "2024-05" are Revenue 1000 and Expense 500, and the
\* computed profit is 500.
C15_ScenarioTotals ==
    (/\ input = Scenario
     /\ fn \in {"graph_business_related_expense_vs_revenue_totals",
                "graph_business_revenue_vs_expense_and_tax_totals"}) =>
        /\ Returned(result)
        /\ MonthlyTotals(result.value.combined_df) =
              (<<"2024-05", "Revenue">> :> 1000)
              @@ (<<"2024-05", "Expense">> :> 500)
        /\ result.value.total_revenue - result.value.total_expenses
              - result.value.total_other = 500

\* the cash flow tags a view shows as "Expense"
RelabeledTags == {"Transfer to Savings", "Reserved for Taxes"}

\* the rows of a filtered table with one of the given cash flow tags
TaggedRows(df, tags) == WhereIsIn(df, "cash_flow_type", tags)

\* the "Expense" total of a month in a combined table (0 when it has none)
ExpenseTotal(combined_df, m) ==
    SumAmount(SelectSeq(combined_df,
        LAMBDA r : r.month_year = m /\ r.cash_flow_type = Some("Expense")))

\* the rows of a table are in the combined table as "Expense", amount as is
KeptAsExpense(rows, combined_df) ==
    \A i \in DOMAIN rows :
        \E k \in DOMAIN combined_df :
            combined_df[k] = [rows[i] EXCEPT !.cash_flow_type = Some("Expense")]

OwnTag(name) ==
    IF name = "graph_business_revenue_vs_expense_and_tax_totals"
    THEN "Reserved for Taxes" ELSE "Transfer to Savings"

RECURSIVE SumDeltas(_)
SumDeltas(rows) ==
    IF rows = <<>> THEN 0 ELSE Head(rows).amount + SumDeltas(Tail(rows))

\* the Business-Related rows of a table with the given cash flow type
BusinessRows(df, cash_flow_type) ==
    WhereEquals(WhereEquals(df, "business_related", "Business-Related"),
                "cash_flow_type", cash_flow_type)

\* C17: in the waterfall shaping, for every input table, the sum of the
\* per-date relative deltas is total Revenue - total Expense - total Transfer
\* to Savings over the Business-Related rows.
C17_WaterfallDeltasSum ==
    fn = "graph_business_related_expense_vs_revenue_waterfall" =>
        /\ Returned(result)
        /\ SumDeltas(result.value) =
              SumAmount(BusinessRows(input, "Revenue"))
              - SumAmount(BusinessRows(input, "Expense"))
              - SumAmount(BusinessRows(input, "Transfer to Savings"))

\* the months of a shaped table
MonthsOf(shaped) == {g.month_year : g \in shaped}

\* the sub-category percentages of a month add up to 100: each is defined, and
\* over their common divisor the dividends add up to 100 times the divisor
SumsToHundred(shaped, m) ==
    LET rows == {g \in shaped : g.month_year = m}
        den == (CHOOSE g \in rows : TRUE).percentage.den
    IN  /\ \A g \in rows : g.percentage.defined /\ g.percentage.den = den
        /\ SumColumn({[main_category |-> g.main_category,
                       sub_category |-> g.sub_category,
                       num |-> g.percentage.num] : g \in rows}, "num")
              = 100 * den

\* C18: in the category-percentage shaping, for every month of the shaped
\* table, the sub-category percentages of the month add up to 100.
C18_PercentagesSumToHundred ==
    fn = "create_percent_stacked_bar_chart" =>
        /\ Returned(result)
        /\ \A m \in MonthsOf(result.value) : SumsToHundred(result.value, m)

\* C18, amended: for every month of the shaped table whose total amount is
\* not 0, the sub-category percentages of the month add up to 100; for a
\* month whose total is 0 every percentage is undefined (a division by 0).
C18_PercentagesOfNonZeroMonths ==
    fn = "create_percent_stacked_bar_chart" =>
        /\ Returned(result)
        /\ \A g \in result.value :
              IF g.amount_monthly_total # 0
              THEN SumsToHundred(result.value, g.month_year)
              ELSE ~g.percentage.defined

C18_Witness ==
    /\ fn = "create_percent_stacked_bar_chart"
    /\ Returned(result)
    /\ \E g \in result.value :
          /\ g.month_year = "2024-05"
          /\ g.amount_monthly_total = 450
          /\ g.percentage = Percentage(300, 450)
    /\ \E g \in result.value :
          /\ g.month_year = "2024-05"
          /\ g.percentage = Percentage(150, 450)

(* ---------------------- the interactive front-end --------------------- *)
\* the keys of chart_functions: the charts the dashboard offers
ChartNames == RevenueVsExpenseViews \cup {view.name : view \in SubcategoryViews}

\* what a call of get_finance_tracker_df() can end in, over the answers the
\* four fetches can get
DfOutcomes ==
    {get_finance_tracker_df(f) : f \in [1..4 -> FetchOutcomes(db[DATABASE_ID])]}

\* get_or_update_data() with the slot as it is, r being what
\* get_finance_tracker_df() ends in if it is called: the table or the
\* exception, the slot afterwards, and the number of calls made
get_or_update_data(slot, r) ==
    IF slot = NONE
    THEN [outcome |-> r,
          cached_df |-> IF Raised(r) THEN slot ELSE Some(r.value),
          fetches |-> 1]
    ELSE [outcome |-> Ok(slot[1]), cached_df |-> slot, fetches |-> 0]

\* chart_func(df): a table without any record has no columns
chart_func(name, df) ==
    IF df = <<>> THEN Raise("KeyError") ELSE ChartOf(name, df)

\* generate_chart(chart_func): the chart function is handed the table object
\* of the slot, which afterwards is what the function left of it
generate_chart(name, slot, r) ==
    LET got == get_or_update_data(slot, r) IN
    IF Raised(got.outcome) THEN got
    ELSE [got EXCEPT !.outcome = chart_func(name, got.outcome.value),
                     !.cached_df =
                         Some(ArgumentAfter(name, got.outcome.value))]

\* chart_func1(), chart_func2(): the second runs when the first has returned
display_selected_charts(chart_name1, chart_name2, slot, r1, r2) ==
    LET first == generate_chart(chart_name1, slot, r1) IN
    IF Raised(first.outcome) THEN first
    ELSE LET second == generate_chart(chart_name2, first.cached_df, r2) IN
         [outcome |-> IF Raised(second.outcome) THEN second.outcome
                      ELSE Ok(<<first.outcome.value, second.outcome.value>>),
          cached_df |-> second.cached_df,
          fetches |-> first.fetches + second.fetches]

\* a slip: the slot is assigned whatever the fetch ended in
update_cached_data_Eager(slot, r) ==
    [outcome |-> IF Raised(r) THEN r ELSE Ok("Data updated successfully."),
     cached_df |-> Some(r.value), fetches |-> 1]

\* update_cached_data(): the slot is assigned when the call has returned
update_cached_data(slot, r) ==
    IF Raised(r) THEN [outcome |-> r, cached_df |-> slot, fetches |-> 1]
    ELSE [outcome |-> Ok("Data updated successfully."),
          cached_df |-> Some(r.value), fetches |-> 1]

\* a request of the dashboard, start to end
Request(name, done) ==
    /\ pc = "idle"
    /\ call' = name
    /\ database_id' = NONE
    /\ outcome' = done.outcome
    /\ pc' = IF Raised(done.outcome) THEN "raised" ELSE "returned"
    /\ failure' = IF Raised(done.outcome)
                     /\ done.outcome.exc \in {"ConnectionError", "KeyError"}
                  THEN [at |-> 1, exc |-> done.outcome.exc] ELSE NoFailure
    /\ cached_df' = done.cached_df
    /\ fetches' = done.fetches
    /\ UNCHANGED <<db, DATABASE_ID, num_pages, payload, data, database_pages,
                   requests, served, prev, fn, input, result>>

generate_chart_call ==
    \E r \in DfOutcomes :
        \E name \in ChartNames :
            Request("generate_chart", generate_chart(name, cached_df, r))

display_selected_charts_call ==
    \E r1 \in DfOutcomes :
        \E r2 \in DfOutcomes :
            \E chart_name1 \in ChartNames, chart_name2 \in ChartNames :
                Request("display_selected_charts",
                        display_selected_charts(chart_name1, chart_name2,
                                                cached_df, r1, r2))

update_cached_data_call ==
    \E r \in DfOutcomes :
        Request("update_cached_data", update_cached_data(cached_df, r))

(* --------------------------- the HTTP routes -------------------------- *)
\* bus_transfer_to_savings_totals.py: the Business-Related transfers to
\* savings and their accumulated total
graph_business_related_transfer_to_savings_totals(df_) ==
    LET pre == preprocess_business_data(df_) IN
    IF Raised(pre) THEN pre
    ELSE
    LET savings_df ==
            WhereEquals(pre.value, "cash_flow_type", "Transfer to Savings")
    IN  Ok([df |-> pre.value,
            combined_df |-> savings_df,
            total_accumulated |-> SumAmount(savings_df)])

\* the chart functions of the three routes of app.py
RouteCharts ==
    {"graph_business_related_expense_vs_revenue_totals",
     "graph_business_related_expense_vs_revenue_waterfall",
     "graph_business_related_transfer_to_savings_totals"}

RouteChartOf(name, df) ==
    CASE name = "graph_business_related_expense_vs_revenue_totals" ->
            graph_business_related_expense_vs_revenue_totals(df)
      [] name = "graph_business_related_expense_vs_revenue_waterfall" ->
            graph_business_related_expense_vs_revenue_waterfall(df)
      [] OTHER -> graph_business_related_transfer_to_savings_totals(df)

\* generate_and_serve_chart: r is what get_finance_tracker_df() ends in, and
\* on_disk tells whether the chart file is there when send_file opens it
generate_and_serve_chart(name, r, on_disk) ==
    IF Raised(r) THEN r
    ELSE LET chart == RouteChartOf(name, r.value) IN
         IF Raised(chart) THEN chart
         ELSE IF on_disk THEN Ok([status |-> 200, body |-> "file"])
         ELSE Ok([status |-> 404, body |-> "File not found"])

generate_and_serve_chart_call ==
    \E r \in DfOutcomes :
        \E name \in RouteCharts, on_disk \in BOOLEAN :
            EndsWith("generate_and_serve_chart", NONE,
                     generate_and_serve_chart(name, r, on_disk))

Next ==
    \/ get_pages_call
    \/ get_database_call
    \/ post_ok
    \/ post_fail
    \/ while_more
    \/ get_pages_return
    \/ get_page_name_mapping_call
    \/ get_sub_to_main_categories_mapping_call
    \/ get_finance_tracker_pages_call
    \/ get_finance_tracker_df_call
    \/ generate_chart_call
    \/ display_selected_charts_call
    \/ update_cached_data_call
    \/ generate_and_serve_chart_call
    \/ finish

Spec == Init /\ [][Next]_vars

\* the chart requests of the dashboard
ChartRequests == {"generate_chart", "display_selected_charts"}

\* C19: of the chart requests made in a row, only the first calls the fetch:
\* a chart request that follows a chart request is served (it returns its
\* charts) from the cached table without a fetch, and a request for two
\* charts fetches once at most.
C19_LaterRequestsServedFromCache ==
    /\ (call \in ChartRequests /\ pc \in {"returned", "raised"}
        /\ prev.call \in ChartRequests /\ failure.at = 0) =>
           /\ Returned(outcome)
           /\ fetches = 0
    /\ Done("display_selected_charts") => fetches <= 1

\* C20: update_cached_data always makes a fresh fetch and leaves the newly
\* fetched table in the cache slot, and a chart request leaves a filled slot
\* as it is.
C20_UpdateOverwritesSlot ==
    /\ (Done("update_cached_data") /\ failure.at = 0) =>
           /\ fetches = 1
           /\ Returned(outcome)
           /\ cached_df # NONE
           /\ Len(cached_df[1]) = Len(ValidTransactions)
    /\ (call \in ChartRequests /\ pc \in {"returned", "raised"}
        /\ prev.call = "update_cached_data" /\ failure.at = 0) =>
           cached_df # NONE

\* C21: a request of an HTTP chart route fetches, shapes and renders and then
\* answers with the generated HTML file, or with the "File not found" 404
\* response when the file is not there; it does not end in an exception.
C21_RouteServesFileOr404 ==
    (Done("generate_and_serve_chart") /\ failure.at = 0) =>
        /\ Returned(outcome)
        /\ outcome.value.status \in {200, 404}

(* ------------------------- the paging protocol ------------------------ *)
\* the steps of a running get_pages call: a request is answered or fails, and
\* the while test is evaluated; once started they are taken until the call ends
get_pages_step == post_ok \/ post_fail \/ while_more \/ get_pages_return

FairSpec == Init /\ [][Next]_vars /\ WF_vars(get_pages_step)

FullFetch == call \in {"get_pages", "get_database"} /\ get_all

\* the response the server gave to the i-th request of the call
ResponseTo(i) == Response(db[DATABASE_ID], requests[i], Len(served[i]))

PagingProtocol ==
    FullFetch =>
        /\ Len(requests) >= 1 =>
              requests[1] = [page_size |-> 100, start_cursor |-> NONE]
        /\ \A i \in 2..Len(requests) :
              /\ ResponseTo(i - 1).has_more
              /\ requests[i].page_size = 100
              /\ requests[i].start_cursor = ResponseTo(i - 1).next_cursor
        /\ pc = "post_next" => Len(requests) = Len(served)
        /\ pc = "returned" =>
              /\ Len(requests) = Len(served)
              /\ ~ResponseTo(Len(served)).has_more

\* C22: in a full fetch the first request carries page size 100 and no cursor,
\* every later request carries the next cursor of the response before it, a
\* further request is made exactly when that response reported more pages, the
\* call returns right after the first response reporting no more pages, with
\* as many requests as pages, and a started fetch always ends.
C22_PagingProtocol ==
    /\ []PagingProtocol
    /\ (FullFetch /\ pc \in {"post_first", "post_next", "loop"})
          ~> (FullFetch /\ pc \in {"returned", "raised"})

C22_Witness ==
    /\ call = "get_pages" /\ pc = "returned" /\ get_all
    /\ Len(requests) = 3
    /\ requests[2].start_cursor # NONE
    /\ requests[3].start_cursor # requests[2].start_cursor

\* C23: no chart computation changes the table it is given: whatever charts
\* are made one after another, the caller's table keeps its rows, its columns
\* and its values (no month_year column, no relabeled tag, no negated amount).
C23_ChartsLeaveTableUnchanged == [][input' = input]_vars

\* the business view has relabeled the tax row and dated it on its own tables,
\* and the caller's table still holds the row as it was
C23_Witness ==
    /\ fn = "graph_business_revenue_vs_expense_and_tax_totals"
    /\ Returned(result)
    /\ \E i \in DOMAIN result.value.combined_df :
          /\ result.value.combined_df[i].name = "vat"
          /\ result.value.combined_df[i].cash_flow_type = Some("Expense")
          /\ result.value.combined_df[i].month_year = "2024-05"
    /\ \E j \in DOMAIN input :
          /\ input[j].name = "vat"
          /\ input[j].cash_flow_type = Some("Reserved for Taxes")
          /\ "month_year" \notin DOMAIN input[j]

\* the Business-Related rows of a table the waterfall is about
WaterfallRows(df) ==
    BusinessRows(df, "Revenue") \o BusinessRows(df, "Expense")
    \o BusinessRows(df, "Transfer to Savings")

\* the signed amount of a row: Revenue counts up, the other two count down
RECURSIVE SignedSum(_)
SignedSum(df) ==
    IF df = <<>> THEN 0
    ELSE (IF Head(df).amount = NONE THEN 0
          ELSE IF Head(df).cash_flow_type = Some("Revenue")
               THEN Head(df).amount[1] ELSE 0 - Head(df).amount[1])
         + SignedSum(Tail(df))

\* C24: the waterfall has exactly one delta per distinct date among the
\* Business-Related Revenue, Expense and Transfer to Savings rows, in strictly
\* ascending date order, each the signed sum of the rows of that exact date;
\* rows of one month but of different dates are not merged.
C24_WaterfallOneDeltaPerDate ==
    fn = "graph_business_related_expense_vs_revenue_waterfall" =>
        /\ Returned(result)
        /\ {result.value[i].date : i \in DOMAIN result.value}
              = {WaterfallRows(input)[k].date : k \in DOMAIN WaterfallRows(input)}
        /\ \A i \in DOMAIN result.value, j \in DOMAIN result.value :
              i < j => Ordinal(result.value[i].date)
                          < Ordinal(result.value[j].date)
        /\ \A i \in DOMAIN result.value :
              result.value[i].amount =
                  SignedSum(SelectSeq(WaterfallRows(input),
                                      LAMBDA r : r.date = result.value[i].date))

\* the rows of a shaped table of one month and one main category
RowsOfMain(shaped, g) ==
    {h \in shaped : h.month_year = g.month_year
                    /\ h.main_category = g.main_category}

\* both percentages of row g are taken of the month's total, and those of the
\* sub-categories of g's main category add up to the main category's
SameDenominator(shaped, g) ==
    /\ g.percentage.defined /\ g.main_category_percentage.defined
    /\ g.percentage.den = g.amount_monthly_total
    /\ g.main_category_percentage.den = g.amount_monthly_total
    /\ SumColumn({[sub_category |-> h.sub_category, num |-> h.percentage.num] :
                     h \in RowsOfMain(shaped, g)}, "num")
          = g.main_category_percentage.num

Permuted(df, p) == [i \in DOMAIN df |-> df[p[i]]]

\* C26: the monthly totals do not depend on the order of the rows: for every
\* table and every permutation of its rows, a view's sums of amount by
\* month_year, and by month_year and cash flow type where the view groups by
\* both, are the same totals for the same keys.
C26_MonthlyTotalsOrderIndependent ==
    (fn \in ChartNames /\ Returned(result)) =>
        \A p \in Permutations(DOMAIN input) :
            ChartOf(fn, Permuted(input, p)).value.annotations
                = result.value.annotations

\* three expenses of one month, summed to one total whatever their order
C26_Witness ==
    /\ fn = "graph_business_revenue_vs_expense_and_tax_totals"
    /\ Returned(result)
    /\ <<"2024-05", "Expense">> \in DOMAIN result.value.annotations
    /\ result.value.annotations[<<"2024-05", "Expense">>] = 570
    /\ Len(input) = 3

\* the requests of the dashboard
DashboardRequests ==
    {"generate_chart", "display_selected_charts", "update_cached_data"}

\* the tables a finished fetch can return
FetchedTables == {r.value : r \in {o \in DfOutcomes : Returned(o)}}

\* a step that is a request of the dashboard, start to end
DashboardStep == pc = "idle" /\ pc' # "idle" /\ call' \in DashboardRequests

\* C28: when the fetch raises during get_or_update_data or update_cached_data
\* the cache slot stays exactly as it was before the call and the request
\* ends in the fetch's exception; the slot is only ever assigned a complete
\* table that a finished fetch returned.
C28_FailedFetchLeavesSlot ==
    [][DashboardStep =>
          /\ cached_df' # cached_df =>
                cached_df' # NONE /\ cached_df'[1] \in FetchedTables
          /\ (cached_df = NONE /\ cached_df' = NONE) =>
                /\ fetches' = 1
                /\ Raised(outcome') /\ outcome' \in DfOutcomes
          /\ (call' = "update_cached_data" /\ Raised(outcome')) =>
                cached_df' = cached_df /\ outcome' \in DfOutcomes]_vars

C28_Witness ==
    /\ Done("update_cached_data")
    /\ Raised(outcome)
    /\ cached_df = NONE
    /\ fetches = 1

InView(view, df) ==
    WhereIsIn(WhereEquals(df, "business_related", view.business_related),
              "cash_flow_type", view.cash_flow_types)

\* the rows of a table that have both categories
Categorised(df) ==
    SelectSeq(df, LAMBDA r : r.main_category # NONE /\ r.sub_category # NONE)

\* the rows of a table of the month m
OfMonth(df, m) == SelectSeq(df, LAMBDA r : month_year(r.date) = m)

\* C30: in the by-sub-category shaping a row whose main_category or
\* sub_category is null belongs to no group: every group amount, every
\* main_category_sum and every amount_monthly_total is a sum over the filtered
\* rows that have both categories, and a month's amount_monthly_total is the
\* sum of the month's sub-category group amounts.
C30_UncategorisedRowsInNoGroup ==
    (fn \in {view.name : view \in SubcategoryViews} /\ Returned(result)) =>
        LET view == CHOOSE v \in SubcategoryViews : v.name = fn
            rows == Categorised(InView(view, input))
            grouped_df == result.value.grouped_df
        IN  /\ MonthsOf(grouped_df)
                  = {month_year(rows[i].date) : i \in DOMAIN rows}
            /\ \A g \in grouped_df :
                  /\ g.amount =
                        SumAmount(SelectSeq(OfMonth(rows, g.month_year),
                            LAMBDA r : /\ r.main_category[1] = g.main_category
                                       /\ r.sub_category[1] = g.sub_category))
                  /\ g.main_category_sum =
                        SumAmount(SelectSeq(OfMonth(rows, g.month_year),
                            LAMBDA r : r.main_category[1] = g.main_category))
                  /\ g.amount_monthly_total
                        = SumAmount(OfMonth(rows, g.month_year))
                  /\ g.amount_monthly_total =
                        SumColumn({[main_category |-> h.main_category,
                                    sub_category |-> h.sub_category,
                                    amount |-> h.amount] :
                                      h \in {x \in grouped_df :
                                                x.month_year = g.month_year}},
                                  "amount")

\* a personal expense without a main category next to the rent of the same
\* month: the month's total is the rent alone
C30_Witness ==
    /\ fn = "graph_personal_expenses_by_subcategory"
    /\ Returned(result)
    /\ \E i \in DOMAIN input, j \in DOMAIN input :
          input[i].name = "cash" /\ input[j].name = "rent"
    /\ \E g \in result.value.grouped_df :
          g.month_year = "2024-06" /\ g.amount_monthly_total = 700
    /\ \A g \in result.value.grouped_df : g.sub_category # "Misc"

====
